---------------------------- MODULE Spec2Model ----------------------------
(***************************************************************************)
(* Model of the metrics engine of qc_simulation/app/backend.py:            *)
(* load_sensor_data, compute_metrics and the caller of app.py that holds   *)
(* the loaded dataframe `df` and the returned `results` dictionary.        *)
(*                                                                         *)
(* Numbers.  The engine computes in IEEE-754 doubles (numpy / pandas).     *)
(* A double is modelled as an exact extended rational [n, d] with d >= 0:  *)
(*   d > 0         the rational n / d                                      *)
(*   n = 1,  d = 0   +inf                                                  *)
(*   n = -1, d = 0   -inf                                                  *)
(*   n = 0,  d = 0   NaN                                                   *)
(* so that x / 0 is inf, -inf or NaN as numpy and pandas produce it, and   *)
(* NaN propagates through + and * and fails every comparison.  Rounding    *)
(* error of the doubles themselves is not modelled.                        *)
(*                                                                         *)
(* Policy scalars (threshold, band, weights, sampling rate) are carried in *)
(* hundredths, the step of the sliders of app.py.                          *)
(***************************************************************************)
EXTENDS Integers, Sequences, FiniteSets, TLC

VARIABLES
    csv,       \* sensor_logs.csv: whether it can be read, and its part records
    heap,      \* dataframe objects by identity: heap[id] is a dataframe or NoObj
    df,        \* the caller's `df`: identity of the loaded dataframe, 0 before a load
    cfg,       \* arguments of the last compute_metrics call, NoCfg before one
    locals,    \* local variables of the last compute_metrics call at its return
    results,   \* the caller's `results`: the dict last returned, None before one
    overwrote, \* the last compute_metrics call found the derived columns already
               \* on the dataframe and replaced them
    op,        \* the operation that ran last
    raised,    \* the exception the last operation raised, "none" when it returned
    roi_args,  \* arguments of the last compute_roi call
    roi_value, \* the caller's `roi_value`: what the last compute_roi call returned
    log_file,  \* participant_runs.csv: whether it exists, and its lines
    logs_df,   \* the caller's `logs_df`: the table view_logs returned last
    logged     \* the log_entry of every log_run call so far, in call order

vars == <<csv, heap, df, cfg, locals, results, overwrote, op, raised,
          roi_args, roi_value, log_file, logs_df, logged>>

---------------------------------------------------------------------------
(* Bounds of the model *)

MaxParts == 2      \* longest enumerated dataset (the 4-part scenario is added)
MaxLoads == 2      \* load_sensor_data calls in one run
MaxRuns == 2       \* log_run calls in one run

(* Program constants *)

Scale == 100            \* policy scalars are in hundredths
BaseTakt == 45
ManualPenalty == 10
SamplingPenalty == 5
SecondsPerHour == 3600
ManualCost == 1000
SamplingCost == 500
EscapeCost == 100
Percent == 100
Decimals == 10          \* round(x, 1): one decimal place
Thousandths == 1000     \* round(x, 3): three decimal places

---------------------------------------------------------------------------
(* Doubles as extended rationals *)

Sgn(x) == IF x > 0 THEN 1 ELSE IF x < 0 THEN -1 ELSE 0

Abs(x) == IF x < 0 THEN -x ELSE x

Num(n, d) == IF d = 0 THEN [n |-> Sgn(n), d |-> 0] ELSE [n |-> n, d |-> d]

FromInt(i) == [n |-> i, d |-> 1]

NaN == [n |-> 0, d |-> 0]

IsNaN(p) == p.d = 0 /\ p.n = 0

IsFinite(p) == p.d > 0

NumAdd(p, q) ==
    IF p.d = 0 /\ q.d = 0
    THEN (IF p.n = q.n THEN p ELSE NaN)
    ELSE Num(p.n * q.d + q.n * p.d, p.d * q.d)

NumMul(p, q) == Num(p.n * q.n, p.d * q.d)

NumDiv(p, q) ==
    IF q.n = 0 /\ q.d > 0
    THEN Num(p.n, 0)
    ELSE Num(p.n * q.d * Sgn(q.n), p.d * Abs(q.n))

\* p >= q; false as soon as one side is NaN
NumGE(p, q) ==
    IF IsNaN(p) \/ IsNaN(q) THEN FALSE
    ELSE IF p.d = 0 /\ q.d = 0 THEN p.n >= q.n
    ELSE p.n * q.d >= q.n * p.d

NumLE(p, q) == NumGE(q, p)

\* nearest integer to n / d (d > 0), ties to the even neighbour
RoundHalfEven(n, d) ==
    LET q == n \div d
        r == n % d
    IN  IF 2 * r < d THEN q
        ELSE IF 2 * r > d THEN q + 1
        ELSE IF q % 2 = 0 THEN q ELSE q + 1

\* round(x, 1)
Round1(p) ==
    IF p.d = 0 THEN p
    ELSE [n |-> RoundHalfEven(Decimals * p.n, p.d), d |-> Decimals]

---------------------------------------------------------------------------
(* Dataframes *)

SourceColumns == {"part_id", "vibration_rms", "acoustic_db", "label"}
DerivedColumns == {"confidence", "ai_decision", "manual_check"}

\* pd.read_csv: the rows of the file as a column-oriented dataframe
ReadCsv(rows) ==
    [columns       |-> SourceColumns,
     part_id       |-> [i \in 1..Len(rows) |-> rows[i].part_id],
     vibration_rms |-> [i \in 1..Len(rows) |-> rows[i].vibration_rms],
     acoustic_db   |-> [i \in 1..Len(rows) |-> rows[i].acoustic_db],
     label         |-> [i \in 1..Len(rows) |-> rows[i].label],
     confidence    |-> <<>>,
     ai_decision   |-> <<>>,
     manual_check  |-> <<>>]

\* len(df)
DfLen(d) == Len(d.part_id)

\* the channel minimum
ColMax_Min(col) ==
    IF Len(col) = 0 THEN NaN
    ELSE FromInt(CHOOSE m \in {col[i] : i \in 1..Len(col)} :
                     \A j \in 1..Len(col) : col[j] >= m)

\* Series.max(): NaN on an empty column
ColMax(col) ==
    IF Len(col) = 0 THEN NaN
    ELSE FromInt(CHOOSE m \in {col[i] : i \in 1..Len(col)} :
                     \A j \in 1..Len(col) : col[j] <= m)

\* a zero divisor taken as a zero contribution
ColDiv_ZeroAsZero(col, m) ==
    [i \in 1..Len(col) |->
        IF m = FromInt(0) THEN FromInt(0) ELSE NumDiv(FromInt(col[i]), m)]

\* Series / scalar
ColDiv(col, m) == [i \in 1..Len(col) |-> NumDiv(FromInt(col[i]), m)]

\* scalar * Series
ColScale(w, col) == [i \in 1..Len(col) |-> NumMul(w, col[i])]

\* Series + Series
ColAdd(a, b) == [i \in 1..Len(a) |-> NumAdd(a[i], b[i])]

\* Series.mean() of a boolean column: NaN on an empty column
BoolMean(col) ==
    NumDiv(FromInt(Cardinality({i \in 1..Len(col) : col[i]})), FromInt(Len(col)))

\* a freed (or not yet allocated) object
NoObj == [ReadCsv(<<>>) EXCEPT !.columns = {}]

---------------------------------------------------------------------------
(* compute_metrics, stage by stage *)

Hundredths(x) == Num(x, Scale)

\* the weighted sum of the raw readings, not normalised
Confidence_Unnormalised(d, vibration_weight, acoustic_weight) ==
    ColAdd(ColScale(vibration_weight, ColDiv(d.vibration_rms, FromInt(1))),
           ColScale(acoustic_weight, ColDiv(d.acoustic_db, FromInt(1))))

\* lines 16-19: the confidence column
Confidence(d, vibration_weight, acoustic_weight) ==
    ColAdd(ColScale(vibration_weight,
                    ColDiv(d.vibration_rms, ColMax(d.vibration_rms))),
           ColScale(acoustic_weight,
                    ColDiv(d.acoustic_db, ColMax(d.acoustic_db))))

\* the comparison turned round: DEFECT below the threshold
AiDecision_Inverted(confidence, confidence_threshold) ==
    [i \in 1..Len(confidence) |->
        IF NumLE(confidence[i], confidence_threshold) THEN "DEFECT" ELSE "OK"]

\* line 21: np.where(confidence >= confidence_threshold, "DEFECT", "OK")
AiDecision(confidence, confidence_threshold) ==
    [i \in 1..Len(confidence) |->
        IF NumGE(confidence[i], confidence_threshold) THEN "DEFECT" ELSE "OK"]

\* line 22: confidence.between(low, high), inclusive on both sides
ManualCheck(confidence, low, high) ==
    [i \in 1..Len(confidence) |->
        NumGE(confidence[i], low) /\ NumLE(confidence[i], high)]

\* | written for &
ConfusionCount_Or(y_true, y_pred, t, p) ==
    Cardinality({i \in 1..Len(y_true) : y_true[i] = t \/ y_pred[i] = p})

\* lines 27-30: np.sum((y_true == t) & (y_pred == p))
ConfusionCount(y_true, y_pred, t, p) ==
    Cardinality({i \in 1..Len(y_true) : y_true[i] = t /\ y_pred[i] = p})

\* line 32
Accuracy(tp, tn, n) == NumDiv(FromInt(tp + tn), FromInt(n))

\* the division without its guard
Recall_NoFallback(tp, fn) == NumDiv(FromInt(tp), FromInt(tp + fn))

\* line 33
Recall(tp, fn) ==
    IF tp + fn > 0 THEN NumDiv(FromInt(tp), FromInt(tp + fn)) ELSE FromInt(0)

\* line 34
Precision(tp, fp) ==
    IF tp + fp > 0 THEN NumDiv(FromInt(tp), FromInt(tp + fp)) ELSE FromInt(0)

\* the manual penalty subtracted
TaktTime_Credit(manual_check, sampling_rate) ==
    NumAdd(NumAdd(FromInt(BaseTakt),
                  NumMul(FromInt(-ManualPenalty), BoolMean(manual_check))),
           NumMul(FromInt(SamplingPenalty), sampling_rate))

\* lines 36-39
TaktTime(manual_check, sampling_rate) ==
    NumAdd(NumAdd(FromInt(BaseTakt),
                  NumMul(FromInt(ManualPenalty), BoolMean(manual_check))),
           NumMul(FromInt(SamplingPenalty), sampling_rate))

\* the rate taken from the rounded takt time
JobsPerHour_FromRounded(takt_time) ==
    NumDiv(FromInt(SecondsPerHour), Round1(takt_time))

\* line 40
JobsPerHour(takt_time) == NumDiv(FromInt(SecondsPerHour), takt_time)

\* line 42
InspectionCost(manual_check, sampling_rate) ==
    NumAdd(NumMul(FromInt(ManualCost), BoolMean(manual_check)),
           NumMul(FromInt(SamplingCost), sampling_rate))

\* line 43
DefectCost(fn) == FromInt(fn * EscapeCost)

\* a column assignment that keeps a column the dataframe already has
Assign_KeepExisting(d, name, values) ==
    IF name \in d.columns THEN d
    ELSE [d EXCEPT ![name] = values, !.columns = @ \cup {name}]

\* df[name] = values: replaces the column if it is there, adds it if not
Assign(d, name, values) ==
    [d EXCEPT ![name] = values, !.columns = @ \cup {name}]

\* the decision written over the label column as well
AttachDerived_OverLabel(d, c) ==
    LET d1 == Assign(d, "confidence",
                     Confidence(d, Hundredths(c.vibration_weight),
                                Hundredths(c.acoustic_weight)))
        d2 == Assign(d1, "ai_decision",
                     AiDecision(d1.confidence, Hundredths(c.confidence_threshold)))
        d3 == Assign(d2, "manual_check",
                     ManualCheck(d2.confidence, Hundredths(c.manual_band[1]),
                                 Hundredths(c.manual_band[2])))
    IN  Assign(d3, "label", d3.ai_decision)

\* lines 16-22: the dataframe after the three column assignments; each later
\* line reads the confidence column back from the dataframe
AttachDerived(d, c) ==
    LET d1 == Assign(d, "confidence",
                     Confidence(d, Hundredths(c.vibration_weight),
                                Hundredths(c.acoustic_weight)))
        d2 == Assign(d1, "ai_decision",
                     AiDecision(d1.confidence, Hundredths(c.confidence_threshold)))
    IN  Assign(d2, "manual_check",
               ManualCheck(d2.confidence, Hundredths(c.manual_band[1]),
                           Hundredths(c.manual_band[2])))

\* lines 24-43: the local variables at the return statement
Locals(d, c) ==
    LET y_true == d.label
        y_pred == d.ai_decision
        tp == ConfusionCount(y_true, y_pred, "DEFECT", "DEFECT")
        tn == ConfusionCount(y_true, y_pred, "OK", "OK")
        fp == ConfusionCount(y_true, y_pred, "OK", "DEFECT")
        fn == ConfusionCount(y_true, y_pred, "DEFECT", "OK")
        sampling_rate == Hundredths(c.sampling_rate)
        takt_time == TaktTime(d.manual_check, sampling_rate)
    IN  [tp              |-> tp,
         tn              |-> tn,
         fp              |-> fp,
         fn              |-> fn,
         accuracy        |-> Accuracy(tp, tn, DfLen(d)),
         recall          |-> Recall(tp, fn),
         precision       |-> Precision(tp, fp),
         takt_time       |-> takt_time,
         jobs_per_hour   |-> JobsPerHour(takt_time),
         inspection_cost |-> InspectionCost(d.manual_check, sampling_rate),
         defect_cost     |-> DefectCost(fn)]

\* lines 45-55: the returned dict; `ref` is the identity of the argument
\* object, which line 54 returns under "df" (the object itself, not a copy)
ReturnDict(l, ref) ==
    [accuracy        |-> Round1(NumMul(l.accuracy, FromInt(Percent))),
     recall          |-> Round1(NumMul(l.recall, FromInt(Percent))),
     precision       |-> Round1(NumMul(l.precision, FromInt(Percent))),
     false_negatives |-> l.fn,
     takt_time       |-> Round1(l.takt_time),
     jobs_per_hour   |-> Round1(l.jobs_per_hour),
     inspection_cost |-> Round1(l.inspection_cost),
     defect_cost     |-> Round1(l.defect_cost),
     df              |-> ref]

\* the eight metric fields of a returned dict
MetricsOf(r) ==
    <<r.accuracy, r.recall, r.precision, r.false_negatives, r.takt_time,
      r.jobs_per_hour, r.inspection_cost, r.defect_cost>>

\* the per-part derived fields of a dataframe
DerivedOf(d) == <<d.confidence, d.ai_decision, d.manual_check>>

---------------------------------------------------------------------------
(* compute_roi *)

\* Python's None where a number is expected: a value outside the doubles
NoneValue == [n |-> 0, d |-> -1]

IsNone(x) == x.d < 0

\* round(x, 3)
Round3(p) ==
    IF p.d = 0 THEN p
    ELSE [n |-> RoundHalfEven(Thousandths * p.n, p.d), d |-> Thousandths]

\* x - y
NumSub(p, q) == NumAdd(p, NumMul(FromInt(-1), q))

\* the guard lets a zero investment through
compute_roi_StrictGuard(baseline_defect_cost, current_defect_cost, inspection_cost, investment_cost) ==
    IF IsNone(investment_cost)
         \/ ~NumGE(investment_cost, FromInt(0))
    THEN NoneValue
    ELSE Round3(NumDiv(NumSub(NumSub(baseline_defect_cost, current_defect_cost),
                              inspection_cost),
                       investment_cost))

\* lines 94-102
compute_roi(baseline_defect_cost, current_defect_cost, inspection_cost, investment_cost) ==
    IF IsNone(investment_cost)
         \/ NumLE(investment_cost, FromInt(0))
    THEN NoneValue
    ELSE Round3(NumDiv(NumSub(NumSub(baseline_defect_cost, current_defect_cost),
                              inspection_cost),
                       investment_cost))

---------------------------------------------------------------------------
(* Inputs *)

VibValues == {0, 2}
AcoValues == {-1, 0, 2}
Labels == {"OK", "DEFECT"}

PartRecord(i, v, a, l) ==
    [part_id |-> i, vibration_rms |-> v, acoustic_db |-> a, label |-> l]

\* the 4-part scenario of the specification's testable properties
ScenarioParts ==
    << PartRecord(1, 1, 10, "OK"), PartRecord(2, 2, 20, "OK"),
       PartRecord(3, 3, 30, "DEFECT"), PartRecord(4, 4, 40, "DEFECT") >>

Datasets ==
    {ScenarioParts} \cup
    UNION { { [i \in 1..n |-> PartRecord(i, f[i][1], f[i][2], f[i][3])] :
                f \in [1..n -> VibValues \X AcoValues \X Labels] } :
            n \in 0..MaxParts }

CsvFiles ==
    {[exists |-> FALSE, rows |-> <<>>]} \cup
    {[exists |-> TRUE, rows |-> r] : r \in Datasets}

\* policy scalars, in hundredths
Thresholds == {20, 70, 100}
Bands == {<<50, 69>>, <<0, 100>>}
WeightPairs == {<<60, 40>>, <<0, 100>>}
SamplingRates == {0, 5}

Configs ==
    { [confidence_threshold |-> t, manual_band |-> b,
       vibration_weight |-> w[1], acoustic_weight |-> w[2],
       sampling_rate |-> s] :
      t \in Thresholds, b \in Bands, w \in WeightPairs, s \in SamplingRates }

NoCfg ==
    [confidence_threshold |-> 0, manual_band |-> <<0, 0>>,
     vibration_weight |-> 0, acoustic_weight |-> 0, sampling_rate |-> 0]

NoLocals ==
    [tp |-> 0, tn |-> 0, fp |-> 0, fn |-> 0, accuracy |-> NaN, recall |-> NaN,
     precision |-> NaN, takt_time |-> NaN, jobs_per_hour |-> NaN,
     inspection_cost |-> NaN, defect_cost |-> NaN]

\* the caller's `results` before any call
None == ReturnDict(NoLocals, 0)

\* dollar amounts handed to compute_roi
DefectCosts == {FromInt(0), FromInt(200), FromInt(400)}
InspectionCosts == {FromInt(0), FromInt(25), FromInt(1025), NaN}
InvestmentCosts ==
    {NoneValue, FromInt(-5), FromInt(0), FromInt(3), FromInt(100), FromInt(5000)}

RoiArgs ==
    [baseline_defect_cost : DefectCosts, current_defect_cost : DefectCosts,
     inspection_cost : InspectionCosts, investment_cost : InvestmentCosts]

\* what log_run is handed: a clock reading, a team name, and the
\* configuration and results of a run
Timestamps == {1, 2}
TeamNames == {"Alpha", "Beta", "NA"}
LoggedConfigs ==
    {c \in Configs : /\ c.confidence_threshold <= 70
                     /\ c.manual_band = <<50, 69>>
                     /\ c.vibration_weight = 60
                     /\ c.sampling_rate = 5}
LoggedDatasets == {ScenarioParts, <<>>}

LoggedRuns ==
    { [cfg |-> c,
       results |-> ReturnDict(Locals(AttachDerived(ReadCsv(rows), c), c), 1)] :
      c \in LoggedConfigs, rows \in LoggedDatasets }

NoRoiArgs ==
    [baseline_defect_cost |-> NoneValue, current_defect_cost |-> NoneValue,
     inspection_cost |-> NoneValue, investment_cost |-> NoneValue]

---------------------------------------------------------------------------
(* log_run and view_logs *)

\* lines 61-78: the log entry of a call
LogEntry(now, team_name, c, r) ==
    [timestamp            |-> now,
     team                 |-> team_name,
     confidence_threshold |-> c.confidence_threshold,
     manual_band_low      |-> c.manual_band[1],
     manual_band_high     |-> c.manual_band[2],
     vibration_weight     |-> c.vibration_weight,
     acoustic_weight      |-> c.acoustic_weight,
     sampling_rate        |-> c.sampling_rate,
     accuracy             |-> r.accuracy,
     recall               |-> r.recall,
     precision            |-> r.precision,
     false_negatives      |-> r.false_negatives,
     takt_time            |-> r.takt_time,
     jobs_per_hour        |-> r.jobs_per_hour,
     inspection_cost      |-> r.inspection_cost,
     defect_cost          |-> r.defect_cost]

\* a line of the file: the header row (the column names, here an entry of
\* placeholders), or the fields of one entry
HeaderLine == [header |-> TRUE, fields |-> LogEntry(0, "team", NoCfg, None)]

\* to_csv of a one-row frame: the strings as they are (quoted where
\* needed), the numbers in their shortest representation, NaN as an empty
\* field
RecordLine(log_entry) == [header |-> FALSE, fields |-> log_entry]

\* the strings pd.read_csv takes for a missing value
NaValues ==
    {"", "#N/A", "#N/A N/A", "#NA", "-1.#IND", "-1.#QNAN", "-NaN", "-nan",
     "1.#IND", "1.#QNAN", "<NA>", "N/A", "NA", "NULL", "NaN", "None", "n/a",
     "nan", "null"}

\* a string cell as pd.read_csv returns it: missing (NaN) when the text is
\* one of NaValues, the text otherwise
ReadString(text) ==
    IF text \in NaValues
    THEN [missing |-> TRUE, value |-> ""]
    ELSE [missing |-> FALSE, value |-> text]

\* a line read back as a row of the table; a numeric field reads back as
\* the number written, an empty field as NaN
ReadLine(line) ==
    [line.fields EXCEPT !.team = ReadString(line.fields.team)]

\* pd.read_csv: the first line names the columns, each later line is a row
ReadLog(lines) == [i \in 1..(Len(lines) - 1) |-> ReadLine(lines[i + 1])]

---------------------------------------------------------------------------
(* The program *)

ObjIds == 1..MaxLoads

\* reference counting: the object `id` loses one of its two possible names
\* (`df`, `results["df"]`) and is freed unless the other one, `keep`, is it
Release(h, id, keep) ==
    IF id # 0 /\ id # keep THEN [h EXCEPT ![id] = NoObj] ELSE h

Init ==
    /\ csv \in CsvFiles
    /\ heap = [i \in ObjIds |-> NoObj]
    /\ df = 0
    /\ cfg = NoCfg
    /\ locals = NoLocals
    /\ results = None
    /\ overwrote = FALSE
    /\ op = "init"
    /\ raised = "none"
    /\ roi_args = NoRoiArgs
    /\ roi_value = NoneValue
    /\ log_file = [exists |-> FALSE, lines |-> <<>>]
    /\ logs_df = <<>>
    /\ logged = <<>>

\* df = load_sensor_data(): a new dataframe object
load_sensor_data ==
    /\ csv.exists
    /\ df < MaxLoads
    /\ df' = df + 1
    /\ heap' = [Release(heap, df, results.df) EXCEPT ![df + 1] = ReadCsv(csv.rows)]
    /\ op' = "load_sensor_data"
    /\ raised' = "none"
    /\ UNCHANGED <<csv, cfg, locals, results, overwrote>>
    /\ UNCHANGED <<roi_args, roi_value, log_file, logs_df, logged>>

\* load_sensor_data() on a file that cannot be read
load_sensor_data_raises ==
    /\ ~csv.exists
    /\ op' = "load_sensor_data"
    /\ raised' = "FileNotFoundError"
    /\ UNCHANGED <<csv, heap, df, cfg, locals, results, overwrote>>
    /\ UNCHANGED <<roi_args, roi_value, log_file, logs_df, logged>>

\* results = compute_metrics(df, ...): mutates the object `df` names and
\* returns that same object under "df"
compute_metrics(c) ==
    /\ df # 0
    /\ heap' = [Release(heap, results.df, df) EXCEPT
                  ![df] = AttachDerived(heap[df], c)]
    /\ locals' = Locals(heap'[df], c)
    /\ results' = ReturnDict(locals', df)
    /\ overwrote' = (DerivedColumns \subseteq heap[df].columns)
    /\ cfg' = c
    /\ op' = "compute_metrics"
    /\ raised' = "none"
    /\ UNCHANGED <<csv, df>>
    /\ UNCHANGED <<roi_args, roi_value, log_file, logs_df, logged>>

Next ==
    \/ load_sensor_data
    \/ load_sensor_data_raises
    \/ \E c \in Configs : compute_metrics(c)

Spec == Init /\ [][Next]_vars

\* roi_value = compute_roi(...): the ROI estimator on its own, a pure
\* function of its four arguments
RoiEstimator(a) ==
    /\ roi_args' = a
    /\ roi_value' = compute_roi(a.baseline_defect_cost, a.current_defect_cost,
                                a.inspection_cost, a.investment_cost)
    /\ op' = "compute_roi"
    /\ raised' = "none"
    /\ UNCHANGED <<csv, heap, df, cfg, locals, results, overwrote>>
    /\ UNCHANGED <<log_file, logs_df, logged>>

InitRoi == Init /\ ~csv.exists

NextRoi == \E a \in RoiArgs : RoiEstimator(a)

SpecRoi == InitRoi /\ [][NextRoi]_vars

\* log_run(team_name, ..., results): appends one line to the file, after the
\* header row when the call creates the file; `now` is datetime.now(), which
\* does not run backwards
log_run(now, team_name, c, r) ==
    /\ Len(logged) < MaxRuns
    /\ \A i \in 1..Len(logged) : logged[i].timestamp <= now
    /\ LET log_entry == LogEntry(now, team_name, c, r)
       IN  /\ log_file' =
                 IF log_file.exists
                 THEN [log_file EXCEPT !.lines = Append(@, RecordLine(log_entry))]
                 ELSE [exists |-> TRUE,
                       lines |-> <<HeaderLine, RecordLine(log_entry)>>]
           /\ logged' = Append(logged, log_entry)
    /\ op' = "log_run"
    /\ raised' = "none"
    /\ UNCHANGED <<csv, heap, df, cfg, locals, results, overwrote>>
    /\ UNCHANGED <<roi_args, roi_value, logs_df>>

\* logs_df = view_logs()
view_logs ==
    /\ logs_df' = IF log_file.exists THEN ReadLog(log_file.lines) ELSE <<>>
    /\ op' = "view_logs"
    /\ raised' = "none"
    /\ UNCHANGED <<csv, heap, df, cfg, locals, results, overwrote>>
    /\ UNCHANGED <<roi_args, roi_value, log_file, logged>>

InitLog == Init /\ ~csv.exists

NextLog ==
    \/ \E now \in Timestamps, team_name \in TeamNames, run \in LoggedRuns :
          log_run(now, team_name, run.cfg, run.results)
    \/ view_logs

SpecLog == InitLog /\ [][NextLog]_vars

---------------------------------------------------------------------------
(* Properties *)

\* a compute_metrics call has returned: `results` holds its dict
Called == results.df # 0

\* the dataframe the returned dict carries under "df"
Frame == heap[results.df]

Tenths(x) == [n |-> x, d |-> Decimals]

NumEq(p, q) == NumGE(p, q) /\ NumGE(q, p)

ValidLabels(d) == \A i \in 1..DfLen(d) : d.label[i] \in {"OK", "DEFECT"}

\* the result at hand is one of the 4-part scenario at threshold 0.7 and
\* weights 0.6 / 0.4
IsScenarioRun ==
    /\ Called
    /\ csv.rows = ScenarioParts
    /\ cfg.confidence_threshold = 70
    /\ cfg.vibration_weight = 60
    /\ cfg.acoustic_weight = 40

\* C1 as stated: on the scenario every part is decided OK, and
\* false_negatives = 2, accuracy = 50.0, recall = 0.0, precision = 0,
\* defect_cost = 200.0
C1_Original ==
    IsScenarioRun =>
        /\ Frame.ai_decision = <<"OK", "OK", "OK", "OK">>
        /\ results.false_negatives = 2
        /\ results.accuracy = Tenths(500)
        /\ results.recall = Tenths(0)
        /\ results.precision = Tenths(0)
        /\ results.defect_cost = Tenths(2000)

\* C1 amended: on the scenario the confidences are 0.25, 0.5, 0.75, 1.0, so
\* parts 1 and 2 are decided OK and parts 3 and 4 DEFECT, and
\* false_negatives = 0, accuracy = recall = precision = 100.0, defect_cost = 0
C1_Scenario ==
    IsScenarioRun =>
        /\ \A i \in 1..4 : NumEq(Frame.confidence[i], Num(25 * i, 100))
        /\ Frame.ai_decision = <<"OK", "OK", "DEFECT", "DEFECT">>
        /\ results.false_negatives = 0
        /\ results.accuracy = Tenths(1000)
        /\ results.recall = Tenths(1000)
        /\ results.precision = Tenths(1000)
        /\ results.defect_cost = Tenths(0)

C1_Witness == IsScenarioRun /\ op = "compute_metrics"

\* C2: on a non-empty dataset with labels OK / DEFECT the four confusion
\* counts of a run add up to the number of parts, and false_negatives is the
\* number of parts labelled DEFECT and decided OK
C2_Partition ==
    (Called /\ DfLen(Frame) > 0 /\ ValidLabels(Frame)) =>
        /\ locals.tp + locals.tn + locals.fp + locals.fn = DfLen(Frame)
        /\ results.false_negatives =
             Cardinality({i \in 1..DfLen(Frame) :
                            Frame.label[i] = "DEFECT" /\ Frame.ai_decision[i] = "OK"})

C2_Witness ==
    /\ Called
    /\ DfLen(Frame) > 0
    /\ ValidLabels(Frame)
    /\ locals.fp > 0
    /\ locals.fn > 0

\* C3: of two successive runs on the same dataset with the same weights and
\* the same manual band, the one with the higher threshold reports at least
\* as many false negatives
C3_Monotone ==
    [][ ( /\ Called
          /\ op' = "compute_metrics"
          /\ cfg'.manual_band = cfg.manual_band
          /\ cfg'.vibration_weight = cfg.vibration_weight
          /\ cfg'.acoustic_weight = cfg.acoustic_weight )
        => /\ (cfg.confidence_threshold <= cfg'.confidence_threshold
                 => results.false_negatives <= results'.false_negatives)
           /\ (cfg'.confidence_threshold <= cfg.confidence_threshold
                 => results'.false_negatives <= results.false_negatives) ]_vars

\* a later run above the lowest threshold misses a defect that the lowest
\* threshold catches
C3_Witness ==
    /\ op = "compute_metrics"
    /\ overwrote
    /\ cfg.confidence_threshold > 20
    /\ \E i \in 1..DfLen(Frame) :
          /\ Frame.label[i] = "DEFECT"
          /\ Frame.ai_decision[i] = "OK"
          /\ NumGE(Frame.confidence[i], Hundredths(20))

\* C4 as stated: on an empty dataset compute_metrics raises and hands back
\* no result
C4_RefusesEmpty ==
    (op = "compute_metrics" /\ DfLen(heap[df]) = 0) =>
        (raised # "none" /\ results = None)

\* C5 as stated: a later call on the same loaded dataset leaves the derived
\* fields of the earlier result as they were returned
C5_SelfContained ==
    [][ (Called /\ results.df = df /\ op' = "compute_metrics")
        => DerivedOf(heap'[results.df]) = DerivedOf(heap[results.df]) ]_vars

\* C6: whatever calls came before, the eight metric fields returned for a
\* configuration are those a freshly loaded copy of the dataset gives
C6_HistoryIndependent ==
    Called =>
        MetricsOf(results) =
        MetricsOf(ReturnDict(Locals(AttachDerived(ReadCsv(csv.rows), cfg), cfg), 0))

C6_Witness == op = "compute_metrics" /\ overwrote /\ DfLen(Frame) > 0

\* the data model: non-empty, vibration_rms non-negative, channel maxima
\* not zero
DataModel(d) ==
    /\ DfLen(d) > 0
    /\ \A i \in 1..DfLen(d) : d.vibration_rms[i] >= 0
    /\ ColMax(d.vibration_rms).n # 0
    /\ ColMax(d.acoustic_db).n # 0

WeightsValid(c) ==
    /\ c.vibration_weight >= 0
    /\ c.acoustic_weight >= 0
    /\ c.vibration_weight + c.acoustic_weight = Scale

InUnit(p) == NumGE(p, FromInt(0)) /\ NumLE(p, FromInt(1))

\* C7 as stated: under the data model and valid weights every confidence is
\* in [0,1]
C7_Original ==
    (Called /\ DataModel(Frame) /\ WeightsValid(cfg)) =>
        \A i \in 1..DfLen(Frame) : InUnit(Frame.confidence[i])

\* C7 amended: the same when acoustic_db is non-negative too
C7_UnitInterval ==
    ( /\ Called
      /\ DataModel(Frame)
      /\ WeightsValid(cfg)
      /\ \A i \in 1..DfLen(Frame) : Frame.acoustic_db[i] >= 0 ) =>
        \A i \in 1..DfLen(Frame) : InUnit(Frame.confidence[i])

C7_Witness ==
    /\ Called
    /\ DataModel(Frame)
    /\ WeightsValid(cfg)
    /\ \A i \in 1..DfLen(Frame) : Frame.acoustic_db[i] >= 0
    /\ \E i \in 1..DfLen(Frame) :
          ~NumGE(FromInt(0), Frame.confidence[i]) /\ ~NumGE(Frame.confidence[i], FromInt(1))

InPercent(p) == NumGE(p, FromInt(0)) /\ NumLE(p, FromInt(Percent))

\* C8: on a valid dataset accuracy, recall and precision are in [0,100];
\* recall is 0 when no part is labelled DEFECT, precision is 0 when no part
\* is decided DEFECT, and the call returns
C8_Percentages ==
    (Called /\ DfLen(Frame) > 0 /\ ValidLabels(Frame)) =>
        /\ InPercent(results.accuracy)
        /\ InPercent(results.recall)
        /\ InPercent(results.precision)
        /\ (\A i \in 1..DfLen(Frame) : Frame.label[i] # "DEFECT")
              => results.recall = Tenths(0)
        /\ (\A i \in 1..DfLen(Frame) : Frame.ai_decision[i] # "DEFECT")
              => results.precision = Tenths(0)
        /\ op = "compute_metrics" => raised = "none"

C8_Witness ==
    /\ op = "compute_metrics"
    /\ DfLen(Frame) > 0
    /\ \A i \in 1..DfLen(Frame) : Frame.label[i] = "OK" /\ Frame.ai_decision[i] = "OK"

\* C9: on a non-empty dataset with sampling_rate in [0,1] the takt time,
\* before and after rounding, is at least 45, and jobs_per_hour is finite
C9_TaktAtLeastBase ==
    (Called /\ DfLen(Frame) > 0 /\ cfg.sampling_rate \in 0..Scale) =>
        /\ NumGE(locals.takt_time, FromInt(BaseTakt))
        /\ NumGE(results.takt_time, FromInt(BaseTakt))
        /\ IsFinite(results.jobs_per_hour)

\* the base cycle time itself: no manual check, no sampling
C9_Witness ==
    /\ op = "compute_metrics"
    /\ DfLen(Frame) > 0
    /\ cfg.sampling_rate = 0
    /\ results.takt_time = Tenths(450)

\* C10 as stated: jobs_per_hour is 3600 over the reported (rounded)
\* takt_time, rounded to one decimal
C10_Original ==
    (Called /\ DfLen(Frame) > 0) =>
        results.jobs_per_hour =
        Round1(NumDiv(FromInt(SecondsPerHour), results.takt_time))

\* C10 amended: jobs_per_hour is 3600 over the takt time before rounding,
\* 45 + 10 * manual_rate + 5 * sampling_rate, rounded to one decimal
C10_FromUnrounded ==
    (Called /\ DfLen(Frame) > 0) =>
        LET n == DfLen(Frame)
            m == Cardinality({i \in 1..n : Frame.manual_check[i]})
            s == cfg.sampling_rate
            takt == Num(45 * 100 * n + 10 * 100 * m + 5 * s * n, 100 * n)
        IN  results.jobs_per_hour = Round1(NumDiv(FromInt(3600), takt))

\* a run whose takt time is changed by the rounding
C10_Witness ==
    /\ op = "compute_metrics"
    /\ DfLen(Frame) > 0
    /\ ~NumEq(results.takt_time, locals.takt_time)

\* the source fields of a dataframe, row by row and in row order
SourceOf(d) == <<d.part_id, d.vibration_rms, d.acoustic_db, d.label>>

\* C11: every live dataframe holds the part_id, vibration_rms, acoustic_db
\* and label of every row exactly as loaded, in the loaded order, whatever
\* calls came before; the only columns added are confidence, ai_decision and
\* manual_check
C11_SourceUntouched ==
    \A id \in ObjIds :
        heap[id].columns # {} =>
            /\ SourceOf(heap[id]) = SourceOf(ReadCsv(csv.rows))
            /\ SourceColumns \subseteq heap[id].columns
            /\ heap[id].columns \subseteq SourceColumns \cup DerivedColumns

\* a second call on the same non-empty dataframe, which now carries the
\* three derived columns
C11_Witness ==
    /\ op = "compute_metrics"
    /\ overwrote
    /\ DfLen(heap[df]) > 0
    /\ heap[df].columns = SourceColumns \cup DerivedColumns
    /\ \E i \in 1..DfLen(heap[df]) : heap[df].ai_decision[i] # heap[df].label[i]

\* the four arguments of the call at hand are numbers
RoiNumeric ==
    /\ IsFinite(roi_args.baseline_defect_cost)
    /\ IsFinite(roi_args.current_defect_cost)
    /\ IsFinite(roi_args.inspection_cost)
    /\ IsFinite(roi_args.investment_cost)

\* r is a multiple of 0.001 nearest to the rational sn / sd (sd > 0)
NearestThousandth(r, sn, sd) ==
    /\ r.d = Thousandths
    /\ 2 * Abs(r.n * sd - Thousandths * sn) <= sd

\* C12: compute_roi never raises; it returns None exactly when
\* investment_cost is None or <= 0, whatever the other arguments; for
\* investment_cost > 0 it returns ((baseline - current) - inspection) /
\* investment rounded to three decimals; compute_roi(x, x, 0, 100) is 0
C12_SoftFailure ==
    op = "compute_roi" =>
        LET b == roi_args.baseline_defect_cost
            c == roi_args.current_defect_cost
            i == roi_args.inspection_cost
            v == roi_args.investment_cost
        IN  /\ raised = "none"
            /\ IsNone(roi_value) <=> (IsNone(v) \/ (IsFinite(v) /\ v.n <= 0))
            /\ (RoiNumeric /\ v.n > 0) =>
                   NearestThousandth(roi_value,
                       ((b.n * c.d - c.n * b.d) * i.d - i.n * b.d * c.d) * v.d,
                       b.d * c.d * i.d * v.n)
            /\ (RoiNumeric /\ b = c /\ i = FromInt(0) /\ v = FromInt(100)) =>
                   roi_value = [n |-> 0, d |-> Thousandths]

\* a call with a positive investment whose quotient is not a multiple of
\* 0.001, so that the rounding acts
C12_Witness ==
    /\ op = "compute_roi"
    /\ RoiNumeric
    /\ roi_args.investment_cost.n > 0
    /\ ~IsNone(roi_value)
    /\ ~NumEq(roi_value,
              NumDiv(NumSub(NumSub(roi_args.baseline_defect_cost,
                                   roi_args.current_defect_cost),
                            roi_args.inspection_cost),
                     roi_args.investment_cost))

\* a non-empty dataframe one of whose sensor channels has maximum zero
ZeroMax(d) ==
    /\ DfLen(d) > 0
    /\ \/ ColMax(d.vibration_rms) = FromInt(0)
       \/ ColMax(d.acoustic_db) = FromInt(0)

\* what the claim says of the decisions and the quality metrics of a run on
\* a zero-maximum dataframe
ZeroMaxOutcome ==
    /\ op = "compute_metrics" => raised = "none"
    /\ \A i \in 1..DfLen(Frame) :
          Frame.ai_decision[i] = "OK" /\ Frame.manual_check[i] = FALSE
    /\ results.false_negatives =
          Cardinality({i \in 1..DfLen(Frame) : Frame.label[i] = "DEFECT"})
    /\ results.recall = Tenths(0)
    /\ results.precision = Tenths(0)

\* C13 as stated: with a zero channel maximum every part is decided OK and
\* not flagged, false_negatives counts the DEFECT labels, recall and
\* precision are 0, and the returned takt_time is 45 + 5 * sampling_rate
C13_Original ==
    (Called /\ ZeroMax(Frame)) =>
        /\ ZeroMaxOutcome
        /\ NumEq(results.takt_time, Num(45 * 100 + 5 * cfg.sampling_rate, 100))

\* C13 amended: the same, the takt time being 45 + 5 * sampling_rate before
\* rounding and that value rounded to one decimal in the returned dict
C13_ZeroMaxPolicy ==
    (Called /\ ZeroMax(Frame)) =>
        /\ ZeroMaxOutcome
        /\ NumEq(locals.takt_time, Num(45 * 100 + 5 * cfg.sampling_rate, 100))
        /\ results.takt_time =
              Round1(Num(45 * 100 + 5 * cfg.sampling_rate, 100))

\* a run at the lowest threshold and the full band on a zero-maximum
\* dataframe holding a DEFECT part, one confidence being -inf
C13_Witness ==
    /\ op = "compute_metrics"
    /\ ZeroMax(Frame)
    /\ cfg.confidence_threshold = 20
    /\ cfg.manual_band = <<0, 100>>
    /\ cfg.sampling_rate = 5
    /\ \E i \in 1..DfLen(Frame) : Frame.label[i] = "DEFECT"
    /\ \E i \in 1..DfLen(Frame) : Frame.confidence[i] = Num(-1, 0)
    /\ \E i \in 1..DfLen(Frame) : IsNaN(Frame.confidence[i])

\* the file holds the header row once, as its first line, and after it the
\* entries of the calls so far, one line each, in call order and as written
LogIsAppendOnly ==
    IF logged = <<>>
    THEN ~log_file.exists
    ELSE /\ log_file.exists
         /\ Len(log_file.lines) = Len(logged) + 1
         /\ log_file.lines[1].header
         /\ \A i \in 1..Len(logged) :
               /\ ~log_file.lines[i + 1].header
               /\ log_file.lines[i + 1].fields = logged[i]

\* the row holds the six configuration scalars and the eight metric fields
\* of the entry
SameNumbers(row, entry) ==
    /\ row.confidence_threshold = entry.confidence_threshold
    /\ row.manual_band_low = entry.manual_band_low
    /\ row.manual_band_high = entry.manual_band_high
    /\ row.vibration_weight = entry.vibration_weight
    /\ row.acoustic_weight = entry.acoustic_weight
    /\ row.sampling_rate = entry.sampling_rate
    /\ row.accuracy = entry.accuracy
    /\ row.recall = entry.recall
    /\ row.precision = entry.precision
    /\ row.false_negatives = entry.false_negatives
    /\ row.takt_time = entry.takt_time
    /\ row.jobs_per_hour = entry.jobs_per_hour
    /\ row.inspection_cost = entry.inspection_cost
    /\ row.defect_cost = entry.defect_cost

\* C14 as stated: from no log file, the file is append-only with one header
\* row, and view_logs right after n log_run calls returns n records in call
\* order (none for n = 0), each holding its call's team, six configuration
\* scalars and eight metric fields
C14_AppendOnly ==
    /\ LogIsAppendOnly
    /\ op = "view_logs" =>
          /\ Len(logs_df) = Len(logged)
          /\ \A i \in 1..Len(logged) :
                /\ SameNumbers(logs_df[i], logged[i])
                /\ ~logs_df[i].team.missing
                /\ logs_df[i].team.value = logged[i].team

\* the same without the team: what view_logs does return of every call
LogReadBack ==
    /\ LogIsAppendOnly
    /\ op = "view_logs" =>
          /\ Len(logs_df) = Len(logged)
          /\ \A i \in 1..Len(logged) :
                /\ SameNumbers(logs_df[i], logged[i])
                /\ logs_df[i].timestamp = logged[i].timestamp
                /\ logs_df[i].team = ReadString(logged[i].team)

====
